---- MODULE Spec2Model ----
(***************************************************************************)
(* A model of the Unreal asset helpers of damsOLabo/framework-unreal.       *)
(*                                                                         *)
(* The repository holds two source trees of the same helpers:              *)
(*   src/core/                   (BaseAsset, LevelAsset; no name argument) *)
(*   src/framework_unreal/core/  (BaseAsset, LevelAsset, MaterialAsset,    *)
(*                                LevelSequenceAsset, FBXImporter)         *)
(* The variable `variant` says which tree is loaded.                       *)
(*                                                                         *)
(* Strings are sequences of one-character strings, so that concatenation   *)
(* (+), str.startswith and str.format are computed, not assumed.           *)
(* The host editor (module `unreal`) is the environment: its asset         *)
(* database is the variables assets / dirs / actors / content / registry,  *)
(* and what it answers is drawn with \E in the actions.                    *)
(***************************************************************************)
EXTENDS Integers, Sequences, FiniteSets, TLC

VARIABLES
    variant,    \* "core" | "framework_unreal": the source tree in use
    assets,     \* host: the object paths at which an asset exists
    dirs,       \* host: the content directories that exist
    actors,     \* host: the actors spawned by the current operation, in order
    pc,         \* "ready" | "level_loop" | "fbx_imported" | "done": position in a call
    call,       \* the operation in progress or last finished
    idx,        \* LevelAsset.create_asset: index of the next loop entry
    fbx,        \* FBXImporter.import_fbx: its arguments and submissions
    content,    \* host: what unreal.load_asset finds after an import
    registry    \* host: what get_assets_by_path lists, per folder

vars == <<variant, assets, dirs, actors, pc, call, idx, fbx, content, registry>>

-----------------------------------------------------------------------------
(* Bounds of the model. *)

MaxSequences == 2
MaxInputs == 2

-----------------------------------------------------------------------------
(* String literals of the source, as character sequences. *)

SLASH == <<"/">>
PFX_MAP == <<"M", "A", "P", "_">>
PFX_LS == <<"L", "S", "_">>
PFX_MM == <<"M", "M", "_">>
PFX_MI == <<"M", "I", "_">>
PFX_SKM == <<"S", "K", "M", "_">>
PFX_PA == <<"P", "A", "_">>
PFX_SKL == <<"S", "K", "L", "_">>
PFX_AS == <<"A", "S", "_">>
NEW_LEVEL == <<"N", "e", "w", "L", "e", "v", "e", "l">>
CINEMATICS == <<"1", "-", "C", "i", "n", "e", "m", "a", "t", "i", "c", "s">>

\* str.startswith
StartsWith(s, prefix) ==
    /\ Len(s) >= Len(prefix)
    /\ SubSeq(s, 1, Len(prefix)) = prefix

\* asset_path + "/" + asset_name
JoinPath(path, name) == path \o SLASH \o name

-----------------------------------------------------------------------------
(* Values a Python call yields: a value, or a raised exception. *)

Ok(v) == [exc |-> "", val |-> v]
Raise(e) == [exc |-> e, val |-> <<>>]

(* A template "<literal>{<field>}": field = "" is the positional "{}".     *)
Template(literal, field) == [literal |-> literal, field |-> field]

(* str.format with positional and keyword arguments, on a template with   *)
(* one replacement field:                                                  *)
(* a positional field takes args[1]; a named field is looked up in kwargs  *)
(* and raises KeyError when no such keyword was passed.                    *)
Format(template, args, kwargs) ==
    IF template.field = ""
    THEN IF Len(args) >= 1 THEN Ok(template.literal \o args[1])
         ELSE Raise("IndexError")
    ELSE IF template.field \in DOMAIN kwargs
         THEN Ok(template.literal \o kwargs[template.field])
         ELSE Raise("KeyError")

NoKwargs == [k \in {} |-> <<>>]

-----------------------------------------------------------------------------
(* Python objects of the helper classes.  attrs is the set of attributes   *)
(* assigned so far: reading one that is not in it raises AttributeError.   *)

NewObject(cls) ==
    [cls |-> cls, attrs |-> {}, asset_path |-> <<>>, asset_type |-> "",
     asset_name |-> <<>>, is_material_instance |-> FALSE,
     level_sequences |-> <<>>]

SetAttr(self, name, value) ==
    [self EXCEPT ![name] = value, !.attrs = @ \cup {name}]

Failed(e, self) == [exc |-> e, val |-> self]

\* LevelAsset.attribute_name_template
LevelAsset_attribute_name_template(self) == Ok(Template(PFX_MAP, "asset_name"))

\* LevelSequenceAsset.attribute_name_template
LevelSequenceAsset_attribute_name_template(self) == Ok(Template(PFX_LS, "asset_name"))

(* MaterialAsset.attribute_name_template: reads self.is_material_instance. *)
MaterialAsset_attribute_name_template(self) ==
    IF "is_material_instance" \notin self.attrs
    THEN Raise("AttributeError")
    ELSE IF self.is_material_instance
         THEN Ok(Template(PFX_MM, "asset_name"))
         ELSE Ok(Template(PFX_MI, "asset_name"))

(* self.attribute_name_template(): the method of the object's class; the   *)
(* one of BaseAsset raises NotImplementedError.                            *)
attribute_name_template(self) ==
    CASE self.cls = "LevelAsset" -> LevelAsset_attribute_name_template(self)
      [] self.cls = "LevelSequenceAsset" -> LevelSequenceAsset_attribute_name_template(self)
      [] self.cls = "MaterialAsset" -> MaterialAsset_attribute_name_template(self)
      [] OTHER -> Raise("NotImplementedError")

(* BaseAsset._get_asset_name: template.format(asset_name), the name passed *)
(* as the one positional argument.                                         *)
get_asset_name(self, asset_name) ==
    LET t == attribute_name_template(self)
    IN  IF t.exc # "" THEN Raise(t.exc)
        ELSE Format(t.val, <<asset_name>>, NoKwargs)

\* The raw string r"\w+" of is_valid_attribute_name.
WORD_PLUS == <<"\\", "w", "+">>

\* The characters the class \w matches, among those names are made of.
WordChars ==
    {"x", "_", "A", "I", "L", "M", "P", "S", "N", "e", "w", "v", "l", "1"}

(* re.match(pattern, name) for a pattern of literal word characters that   *)
(* may end in \w+ : the literal at the start of name, then at least one    *)
(* word character; "True" on a match object, "False" on None.              *)
re_match(pattern, name) ==
    LET n == Len(pattern) - Len(WORD_PLUS)
    IN  IF n >= 0 /\ SubSeq(pattern, n + 1, Len(pattern)) = WORD_PLUS
        THEN /\ StartsWith(name, SubSeq(pattern, 1, n))
             /\ Len(name) > n
             /\ name[n + 1] \in WordChars
        ELSE StartsWith(name, pattern)

(* BaseAsset.is_valid_attribute_name(name): the pattern is                 *)
(* template.format(r"\w+"), the raw string passed as the one positional    *)
(* argument; then bool(re.match(pattern, name)).                           *)
is_valid_attribute_name(self, name) ==
    LET t == attribute_name_template(self)
    IN  IF t.exc # "" THEN Raise(t.exc)
        ELSE LET pattern == Format(t.val, <<WORD_PLUS>>, NoKwargs)
             IN  IF pattern.exc # "" THEN Raise(pattern.exc)
                 ELSE Ok(re_match(pattern.val, name))

(* BaseAsset.__init__(asset_path, asset_name, asset_type).                 *)
BaseAsset_init(self, asset_path, asset_name, asset_type) ==
    LET s1 == SetAttr(self, "asset_path", asset_path)
        s2 == SetAttr(s1, "asset_type", asset_type)
        r == get_asset_name(s2, asset_name)
    IN  IF r.exc # "" THEN Failed(r.exc, s2)
        ELSE Ok(SetAttr(s2, "asset_name", r.val))

(* LevelAsset.__init__(asset_path, asset_name, level_sequences).           *)
LevelAsset_init(asset_path, asset_name, level_sequences) ==
    LET r == BaseAsset_init(NewObject("LevelAsset"), asset_path, asset_name, "World")
    IN  IF r.exc # "" THEN r
        ELSE Ok(SetAttr(r.val, "level_sequences", level_sequences))

(* LevelSequenceAsset.__init__(asset_path, asset_name): the super call     *)
(* passes (asset_name, asset_path, LevelSequence).                         *)
LevelSequenceAsset_init(asset_path, asset_name) ==
    BaseAsset_init(NewObject("LevelSequenceAsset"), asset_name, asset_path,
                   "LevelSequence")

(* MaterialAsset.__init__(asset_path, asset_name, is_material_instance):   *)
(* is_material_instance is assigned after the super call returns.          *)
MaterialAsset_init(asset_path, asset_name, is_material_instance) ==
    LET r == BaseAsset_init(NewObject("MaterialAsset"), asset_path, asset_name,
                            IF is_material_instance THEN "MaterialInstance"
                            ELSE "Material")
    IN  IF r.exc # "" THEN r
        ELSE Ok(SetAttr(r.val, "is_material_instance", is_material_instance))

(* src/core: LevelAsset._get_asset_name takes no argument.                 *)
core_get_asset_name(self) ==
    IF self.cls = "LevelAsset" THEN Ok(NEW_LEVEL)
    ELSE Raise("NotImplementedError")

(* src/core: BaseAsset.__init__(asset_path, asset_type).                   *)
core_BaseAsset_init(self, asset_path, asset_type) ==
    LET s1 == SetAttr(self, "asset_path", asset_path)
        s2 == SetAttr(s1, "asset_type", asset_type)
        r == core_get_asset_name(s2)
    IN  IF r.exc # "" THEN Failed(r.exc, s2)
        ELSE Ok(SetAttr(s2, "asset_name", r.val))

(* src/core: LevelAsset.__init__(asset_path, level_sequences).             *)
core_LevelAsset_init(asset_path, level_sequences) ==
    LET r == core_BaseAsset_init(NewObject("LevelAsset"), asset_path, "Level")
    IN  IF r.exc # "" THEN r
        ELSE Ok(SetAttr(r.val, "level_sequences", level_sequences))

-----------------------------------------------------------------------------
(* The host's asset library and asset tools, as the helpers call them.     *)

RetNone == [tag |-> "None", exc |-> "", path |-> <<>>]
RetHandle(path) == [tag |-> "handle", exc |-> "", path |-> path]
RetRaise(e) == [tag |-> "raise", exc |-> e, path |-> <<>>]

LogEntry(op, path, name) == [op |-> op, path |-> path, name |-> name]

(* unreal.EditorAssetLibrary.does_asset_exist(path): whether an asset is   *)
(* stored at exactly this object path.                                     *)
does_asset_exist(path, A) == path \in A

(* AssetTools.create_asset(asset_name, package_path, ...): when the host   *)
(* succeeds (hc) the asset exists at package_path/asset_name and a handle  *)
(* to it is returned; otherwise None and nothing changes.                  *)
host_create_asset(asset_name, package_path, A, hc) ==
    IF hc
    THEN [asset |-> RetHandle(JoinPath(package_path, asset_name)),
          assets |-> A \cup {JoinPath(package_path, asset_name)}]
    ELSE [asset |-> RetNone, assets |-> A]

(* self._get_creation_options(): the factory of the object's class        *)
(* (WorldFactory, LevelSequenceFactoryNew, MaterialFactoryNew); the method *)
(* of BaseAsset raises NotImplementedError.                                *)
get_creation_options(self) ==
    CASE self.cls = "LevelAsset" -> Ok("WorldFactory")
      [] self.cls = "LevelSequenceAsset" -> Ok("LevelSequenceFactoryNew")
      [] self.cls = "MaterialAsset" -> Ok("MaterialFactoryNew")
      [] OTHER -> Raise("NotImplementedError")

(* The existence query without the try/except of check_asset_exists: a    *)
(* failure of the host leaves the method as an exception.                  *)
check_asset_exists_unguarded(asset_path, A, hx) ==
    IF hx = "raise" THEN "raise"
    ELSE IF does_asset_exist(asset_path, A) THEN "True" ELSE "False"

(* An existence check that answers "True" when the host query fails, so   *)
(* that an unknown result stops the creation.                              *)
check_asset_exists_or_assume(asset_path, A, hx) ==
    IF hx = "raise" THEN "True"
    ELSE IF does_asset_exist(asset_path, A) THEN "True" ELSE "False"

(* BaseAsset.check_asset_exists(asset_path): "True" / "False" as the host  *)
(* answers, "None" when the host query raises (hx = "raise").              *)
check_asset_exists(asset_path, A, hx) ==
    IF hx = "raise" THEN "None"
    ELSE IF does_asset_exist(asset_path, A) THEN "True" ELSE "False"

(* BaseAsset.create_asset of src/framework_unreal/core: the result, the    *)
(* host calls made in order, and the host's assets afterwards.             *)
BaseAsset_create_asset(self, A, hx, hc) ==
    LET chk == check_asset_exists(self.asset_path, A, hx)
        log1 == <<LogEntry("does_asset_exist", self.asset_path, <<>>)>>
    IN  IF chk = "True"
        THEN [ret |-> RetNone, log |-> log1, assets |-> A]
        ELSE LET options == get_creation_options(self)
             IN  IF options.exc # ""
                 THEN [ret |-> RetRaise(options.exc), log |-> log1, assets |-> A]
                 ELSE LET made == host_create_asset(self.asset_name, self.asset_path, A, hc)
                          log2 == Append(log1, LogEntry("create_asset", self.asset_path,
                                                        self.asset_name))
                      IN  IF made.asset.tag = "handle"
                          THEN [ret |-> made.asset,
                                log |-> Append(log2, LogEntry("save_asset",
                                                              made.asset.path, <<>>)),
                                assets |-> made.assets]
                          ELSE [ret |-> made.asset, log |-> log2, assets |-> made.assets]

(* src/core: LevelAsset._get_creation_options; the base class raises.      *)
core_get_creation_options(self) ==
    IF self.cls = "LevelAsset" THEN Ok("EditorAssetCreationOptions")
    ELSE Raise("NotImplementedError")

(* BaseAsset.create_asset of src/core: the host query is not guarded, and  *)
(* the created asset is returned without a save.                           *)
core_BaseAsset_create_asset(self, A, hx, hc) ==
    LET full == JoinPath(self.asset_path, self.asset_name)
        log1 == <<LogEntry("does_asset_exist", full, <<>>)>>
    IN  IF hx = "raise"
        THEN [ret |-> RetRaise("Exception"), log |-> log1, assets |-> A]
        ELSE IF does_asset_exist(full, A)
        THEN [ret |-> RetNone, log |-> log1, assets |-> A]
        ELSE LET options == core_get_creation_options(self)
                 made == host_create_asset(self.asset_name, self.asset_path, A, hc)
             IN  IF options.exc # ""
                 THEN [ret |-> RetRaise(options.exc), log |-> log1, assets |-> A]
                 ELSE [ret |-> made.asset,
                       log |-> Append(log1, LogEntry("create_asset", self.asset_path,
                                                     self.asset_name)),
                       assets |-> made.assets]

base_create_asset(v, self, A, hx, hc) ==
    IF v = "core" THEN core_BaseAsset_create_asset(self, A, hx, hc)
    ELSE BaseAsset_create_asset(self, A, hx, hc)

-----------------------------------------------------------------------------
(* LevelAsset.create_asset: the level sequences.                           *)

\* cinematics_path = self.asset_path + "/1-Cinematics"
\* A create_asset of LevelAsset that goes on whatever the base returned.
level_is_never_None(level) == FALSE

\* LevelAsset.create_asset: "if level is None: return None".
level_is_None(level) == level.tag = "None"

cinematics_path(self) == self.asset_path \o SLASH \o CINEMATICS

(* LevelAsset._create_level_sequence(sequence_path, sequence_name) of      *)
(* src/framework_unreal/core: build a LevelSequenceAsset, create it.       *)
create_level_sequence(sequence_path, sequence_name, A, hx, hc) ==
    LET lvl_seq == LevelSequenceAsset_init(sequence_path, sequence_name)
    IN  IF lvl_seq.exc # ""
        THEN [ret |-> RetRaise(lvl_seq.exc), log |-> <<>>, assets |-> A]
        ELSE BaseAsset_create_asset(lvl_seq.val, A, hx, hc)

(* LevelAsset._create_level_sequence(sequence_path, sequence_name) of      *)
(* src/core, called with the positional arguments args: a call that does   *)
(* not bind both parameters raises TypeError before the body runs.  The    *)
(* body creates the sequence, sets its display rate (AttributeError on     *)
(* None) and saves it.                                                     *)
core_create_level_sequence(args, A, hc) ==
    IF Len(args) # 2
    THEN [ret |-> RetRaise("TypeError"), log |-> <<>>, assets |-> A]
    ELSE LET made == host_create_asset(args[2], args[1], A, hc)
             log1 == <<LogEntry("create_asset", args[1], args[2])>>
         IN  IF made.asset.tag # "handle"
             THEN [ret |-> RetRaise("AttributeError"), log |-> log1, assets |-> made.assets]
             ELSE [ret |-> made.asset,
                   log |-> Append(log1, LogEntry("save_asset", made.asset.path, <<>>)),
                   assets |-> made.assets]

(* The call of _create_level_sequence made by the loop of                  *)
(* LevelAsset.create_asset: (sequence_path, sequence_name) in              *)
(* src/framework_unreal/core, (sequence_name) alone in src/core.           *)
loop_create_level_sequence(v, entry, A, hx, hc) ==
    IF v = "core" THEN core_create_level_sequence(<<entry.name>>, A, hc)
    ELSE create_level_sequence(entry.path, entry.name, A, hx, hc)

Actor(object) == [object |-> object, in_world |-> TRUE, folder |-> CINEMATICS]

(* One iteration of the loop over self.level_sequences: look the sequence  *)
(* up under the cinematics folder, create it if it is not found, spawn an  *)
(* actor from it, add the actor to the level's world and set its folder.   *)
(* Yields exc ("" when the iteration completes), the host calls, the       *)
(* host's assets and the actors spawned (none or one).                     *)
level_loop_body(v, self, entry, A, hx, hc) ==
    LET lookup == JoinPath(cinematics_path(self), entry.name)
        log1 == <<LogEntry("find_asset_data", lookup, <<>>)>>
        found == lookup \in A
        made == loop_create_level_sequence(v, entry, A, hx, hc)
        sequence_asset == IF found THEN RetHandle(lookup) ELSE made.ret
        log2 == IF found THEN log1 ELSE log1 \o made.log
        A2 == IF found THEN A ELSE made.assets
        log3 == Append(log2, LogEntry("spawn_actor_from_object", sequence_asset.path, <<>>))
    IN  IF sequence_asset.tag = "raise"
        THEN [exc |-> sequence_asset.exc, log |-> log2, assets |-> A2, spawned |-> <<>>]
        ELSE IF sequence_asset.tag = "None"
        THEN [exc |-> "AttributeError",
              log |-> Append(log3, LogEntry("add_actor_to_level", <<>>, <<>>)),
              assets |-> A2, spawned |-> <<>>]
        ELSE [exc |-> "",
              log |-> log3 \o <<LogEntry("add_actor_to_level", sequence_asset.path, <<>>),
                                LogEntry("set_folder_path", sequence_asset.path, CINEMATICS)>>,
              assets |-> A2, spawned |-> <<Actor(sequence_asset.path)>>]

-----------------------------------------------------------------------------
(* FBXImporter.                                                            *)

NONE == <<>>

(* FBXImporter._set_task: an unreal.AssetImportTask.                       *)
set_task(fbx_path, destination_path, asset_name, replace_existing) ==
    [filename |-> fbx_path, destination_path |-> destination_path,
     destination_name |-> asset_name, replace_existing |-> replace_existing]

(* FBXImporter.set_fbx: the task with its unreal.FbxImportUI options.      *)
set_fbx(fbx_path, destination_path, asset_name, import_animation, import_materials, import_textures, import_mesh, replace_existing) ==
    [task |-> set_task(fbx_path, destination_path, asset_name, replace_existing),
     options |-> [import_mesh |-> import_mesh, import_materials |-> import_materials,
                  import_textures |-> import_textures,
                  import_animations |-> import_animation]]

(* The tasks import_fbx builds, one per input, in input order; the flags   *)
(* other than import_animation at their default True.                      *)
build_tasks(inputs, import_animation) ==
    [i \in DOMAIN inputs |->
        set_fbx(inputs[i].file_path, inputs[i].destination_path, inputs[i].asset_name,
                import_animation, TRUE, TRUE, TRUE, TRUE)]

\* A variant that submits every task in a call of its own.
import_submissions_per_task(tasks) == [i \in DOMAIN tasks |-> <<tasks[i]>>]

(* The submissions import_fbx makes to AssetTools.import_asset_tasks: one  *)
(* call with the whole list.                                               *)
import_submissions(tasks) == <<tasks>>

(* unreal.AssetRenameData(asset, new_package_path, new_name).              *)
AssetRenameData(asset, new_package_path, new_name) ==
    [kind |-> "AssetRenameData", asset |-> asset,
     new_package_path |-> new_package_path, new_name |-> new_name]

(* An object that is put in the batch as it is, not as a rename entry.     *)
BareObject(asset) ==
    [kind |-> "Object", asset |-> asset, new_package_path |-> NONE, new_name |-> NONE]

(* unreal.load_asset(asset_path): the object the host holds there, of      *)
(* class "None" when there is none.                                        *)
NoObject == [cls |-> "None", id |-> NONE, physics_asset |-> NONE, skeleton |-> NONE]

load_asset(asset_path, C) ==
    IF asset_path \in DOMAIN C THEN C[asset_path] ELSE NoObject

(* The entries rename_assets queues for the mesh of one input.             *)
mesh_renames(asset_input, C) ==
    LET destination_path == asset_input.destination_path
        asset_name == asset_input.asset_name
        asset == load_asset(JoinPath(destination_path, asset_name), C)
    IN  IF asset.cls = "SkeletalMesh"
        THEN <<AssetRenameData(asset.id, destination_path, PFX_SKM \o asset_name)>>
             \o (IF asset.physics_asset # NONE
                 THEN <<AssetRenameData(asset.physics_asset, destination_path,
                                        PFX_PA \o asset_name)>>
                 ELSE <<>>)
             \o (IF asset.skeleton # NONE
                 THEN <<AssetRenameData(asset.skeleton, destination_path,
                                        PFX_SKL \o asset_name)>>
                 ELSE <<>>)
        ELSE IF asset.cls = "StaticMesh"
        THEN <<BareObject(asset.id)>>
        ELSE <<>>

\* The class test alone, without the test of the name.
IsAnimation(asset_in_package) == asset_in_package.asset_class = "AnimationAsset"

IsUnprefixedAnimation(asset_in_package) ==
    /\ asset_in_package.asset_class = "AnimationAsset"
    /\ ~StartsWith(asset_in_package.asset_name, PFX_AS)

(* The entries rename_assets queues for the animations found in the        *)
(* destination folder of one input (asset_class and asset_name read as the *)
(* source reads them).                                                     *)
animation_renames(asset_input, import_animation, R) ==
    IF ~import_animation THEN <<>>
    ELSE LET found == SelectSeq(R[asset_input.destination_path], IsUnprefixedAnimation)
         IN  [i \in DOMAIN found |->
                 AssetRenameData(found[i].id, asset_input.destination_path,
                                 PFX_AS \o asset_input.asset_name \o found[i].asset_name)]

RECURSIVE assets_to_rename(_, _, _, _)
(* The list rename_assets builds over its inputs, in input order.          *)
assets_to_rename(inputs, import_animation, C, R) ==
    IF inputs = <<>> THEN <<>>
    ELSE mesh_renames(Head(inputs), C)
         \o animation_renames(Head(inputs), import_animation, R)
         \o assets_to_rename(Tail(inputs), import_animation, C, R)

(* The submissions rename_assets makes to AssetTools.rename_assets: one    *)
(* call with the whole list.                                               *)
rename_submissions(batch) == <<batch>>

-----------------------------------------------------------------------------
(* The inputs of the model. *)

Stem == <<"x">>
PathArgs == {<<"/", "G">>}
SeqNames == {<<"s">>, <<"t">>}
BaseNames == {Stem} \cup {pfx \o Stem : pfx \in {PFX_MAP, PFX_LS, PFX_MM, PFX_MI}}

SeqsUpTo(S, n) == UNION {[1..k -> S] : k \in 0..n}

Distinct(seq) == \A i, j \in DOMAIN seq : seq[i] = seq[j] => i = j

Names(entries) == [i \in DOMAIN entries |-> entries[i].name]

(* level_sequences: a dict name -> path in src/framework_unreal/core (its  *)
(* keys distinct, iterated in insertion order), a list of names in         *)
(* src/core (path unused).                                                 *)
LevelSequences(v, asset_path) ==
    IF v = "core"
    THEN SeqsUpTo({[name |-> n, path |-> <<>>] : n \in SeqNames}, MaxSequences)
    ELSE {d \in SeqsUpTo({[name |-> n, path |-> asset_path \o SLASH \o CINEMATICS] :
                             n \in SeqNames}, MaxSequences) : Distinct(Names(d))}

Object(cls, asset_path, asset_type, asset_name, mi, seqs) ==
    [cls |-> cls,
     attrs |-> {"asset_path", "asset_type", "asset_name"}
               \cup (IF cls = "MaterialAsset" THEN {"is_material_instance"} ELSE {})
               \cup (IF cls = "LevelAsset" THEN {"level_sequences"} ELSE {}),
     asset_path |-> asset_path, asset_type |-> asset_type, asset_name |-> asset_name,
     is_material_instance |-> mi, level_sequences |-> seqs]

(* The LevelAsset objects create_asset is called on.  In src/core they are *)
(* the objects the constructor builds; in src/framework_unreal/core they   *)
(* are objects of the class (or of a class derived from it) whose          *)
(* attributes hold a path, the kind and a name carrying the kind's prefix. *)
LevelReceivers(v) ==
    IF v = "core"
    THEN UNION {{core_LevelAsset_init(p, seqs).val : seqs \in LevelSequences(v, p)} :
                   p \in PathArgs}
    ELSE UNION {{Object("LevelAsset", p, "World", PFX_MAP \o Stem, FALSE, seqs) :
                    seqs \in LevelSequences(v, p)} : p \in PathArgs}

(* The receivers of BaseAsset.create_asset that do not override it         *)
(* (src/framework_unreal/core only: src/core has no such class).           *)
BaseReceivers(v) ==
    IF v = "core" THEN {}
    ELSE {Object("LevelSequenceAsset", p, "LevelSequence", PFX_LS \o Stem, FALSE, <<>>) :
             p \in PathArgs}
         \cup {Object("MaterialAsset", p, "MaterialInstance", PFX_MM \o Stem, TRUE, <<>>) :
                  p \in PathArgs}
         \cup {Object("MaterialAsset", p, "Material", PFX_MI \o Stem, FALSE, <<>>) :
                  p \in PathArgs}

AssetUniverse ==
    PathArgs
    \cup {JoinPath(p, n) : p \in PathArgs, n \in {PFX_MAP \o Stem, PFX_LS \o Stem, NEW_LEVEL}}
    \cup {JoinPath(p \o SLASH \o CINEMATICS, n) : p \in PathArgs, n \in SeqNames}

DirUniverse == {p \o SLASH \o CINEMATICS : p \in PathArgs}

FILE == <<"f">>
FbxEntries ==
    {[file_path |-> FILE, destination_path |-> <<"/", "D">>, asset_name |-> <<"a">>],
     [file_path |-> FILE, destination_path |-> <<"/", "D">>, asset_name |-> <<"b">>],
     [file_path |-> FILE, destination_path |-> <<"/", "E">>, asset_name |-> <<"a">>]}

FbxInputs == SeqsUpTo(FbxEntries, MaxInputs)

PathsOf(inputs) ==
    {JoinPath(inputs[i].destination_path, inputs[i].asset_name) : i \in DOMAIN inputs}

FoldersOf(inputs) == {inputs[i].destination_path : i \in DOMAIN inputs}

(* What the host may hold at a task's destination after the import: a      *)
(* skeletal mesh with or without physics asset and skeleton, a static      *)
(* mesh, or nothing (the import of that file failed).                      *)
ImportedObjects(path) ==
    {[cls |-> "SkeletalMesh", id |-> path, physics_asset |-> pa, skeleton |-> sk] :
        pa \in {NONE, <<"P", "1">>}, sk \in {NONE, <<"S", "1">>}}
    \cup {[cls |-> "StaticMesh", id |-> path, physics_asset |-> NONE, skeleton |-> NONE],
          NoObject}

AssetData(folder, asset_class, asset_name) ==
    [asset_class |-> asset_class, asset_name |-> asset_name,
     id |-> JoinPath(folder, asset_name)]

(* What the asset registry may list for a folder after the import.         *)
Listings(folder) ==
    {<<>>,
     <<AssetData(folder, "AnimationAsset", <<"w">>)>>,
     <<AssetData(folder, "AnimationAsset", PFX_AS \o <<"w">>)>>,
     <<AssetData(folder, "Texture", <<"w">>),
       AssetData(folder, "AnimationAsset", PFX_AS \o <<"v">>),
       AssetData(folder, "AnimationAsset", <<"v">>)>>}

HostContents(inputs) ==
    {c \in [PathsOf(inputs) -> UNION {ImportedObjects(q) : q \in PathsOf(inputs)}] :
        \A q \in PathsOf(inputs) : c[q] \in ImportedObjects(q)}

HostRegistries(inputs) ==
    {r \in [FoldersOf(inputs) -> UNION {Listings(d) : d \in FoldersOf(inputs)}] :
        \A d \in FoldersOf(inputs) : r[d] \in Listings(d)}

NoArgs == [asset_path |-> <<>>, asset_name |-> <<>>, is_material_instance |-> FALSE]

NoCall ==
    [op |-> "", self |-> NewObject(""), args |-> NoArgs, pre |-> {},
     hx |-> "answer", baselog |-> <<>>, log |-> <<>>, base |-> RetNone,
     ret |-> RetNone]

NoFbx == [inputs |-> <<>>, import_animation |-> FALSE, imports |-> <<>>, renames |-> <<>>]

EmptyMap == [k \in {} |-> <<>>]

-----------------------------------------------------------------------------
(* The operations.  A behaviour is one operation of the helpers, started   *)
(* from any state of the host's asset database.                            *)

Init ==
    /\ variant \in {"core", "framework_unreal"}
    /\ assets \in SUBSET AssetUniverse
    /\ dirs \in SUBSET DirUniverse
    /\ actors = <<>>
    /\ pc = "ready"
    /\ call = NoCall
    /\ idx = 0
    /\ fbx = NoFbx
    /\ content = EmptyMap
    /\ registry = EmptyMap

(* Constructing a helper: LevelAsset(p, b, seqs), LevelSequenceAsset(p, b),*)
(* MaterialAsset(p, b, mi) or BaseAsset(p, b, type) in                     *)
(* src/framework_unreal/core; LevelAsset(p, seqs) or BaseAsset(p, type) in *)
(* src/core.                                                               *)
construct(v, cls, p, b, mi, seqs) ==
    IF v = "core"
    THEN IF cls = "LevelAsset" THEN core_LevelAsset_init(p, seqs)
         ELSE core_BaseAsset_init(NewObject("BaseAsset"), p, "Texture2D")
    ELSE CASE cls = "LevelAsset" -> LevelAsset_init(p, b, seqs)
           [] cls = "LevelSequenceAsset" -> LevelSequenceAsset_init(p, b)
           [] cls = "MaterialAsset" -> MaterialAsset_init(p, b, mi)
           [] OTHER -> BaseAsset_init(NewObject("BaseAsset"), p, b, "Texture2D")

Classes(v) ==
    IF v = "core" THEN {"BaseAsset", "LevelAsset"}
    ELSE {"BaseAsset", "LevelAsset", "LevelSequenceAsset", "MaterialAsset"}

Construct ==
    /\ pc = "ready"
    /\ \E cls \in Classes(variant), p \in PathArgs, b \in BaseNames, mi \in BOOLEAN :
         \E seqs \in (IF cls = "LevelAsset" THEN LevelSequences(variant, p) ELSE {<<>>}) :
           LET r == construct(variant, cls, p, b, mi, seqs)
           IN  call' = [op |-> "construct", self |-> r.val,
                        args |-> [asset_path |-> p, asset_name |-> b,
                                  is_material_instance |-> mi],
                        pre |-> assets, hx |-> "answer", baselog |-> <<>>,
                        log |-> <<>>, base |-> RetNone,
                        ret |-> IF r.exc = "" THEN [tag |-> "object", exc |-> "", path |-> <<>>]
                                ELSE RetRaise(r.exc)]
    /\ pc' = "done"
    /\ UNCHANGED <<variant, assets, dirs, actors, idx, fbx, content, registry>>

(* BaseAsset.create_asset called on a helper that does not override it.    *)
CreateAsset ==
    /\ pc = "ready"
    /\ \E self \in BaseReceivers(variant), hx \in {"answer", "raise"}, hc \in BOOLEAN :
         LET r == base_create_asset(variant, self, assets, hx, hc)
         IN  /\ call' = [op |-> "create_asset", self |-> self, args |-> NoArgs,
                         pre |-> assets, hx |-> hx, baselog |-> r.log,
                         log |-> r.log, base |-> r.ret, ret |-> r.ret]
             /\ assets' = r.assets
    /\ pc' = "done"
    /\ UNCHANGED <<variant, dirs, actors, idx, fbx, content, registry>>

(* BaseAsset.check_asset_exists called on its own with any path; the       *)
(* method exists in src/framework_unreal/core only.                        *)
CheckAssetExists ==
    /\ pc = "ready"
    /\ variant = "framework_unreal"
    /\ \E self \in BaseReceivers(variant), path \in AssetUniverse, hx \in {"answer", "raise"} :
         call' = [op |-> "check_asset_exists", self |-> self,
                  args |-> [NoArgs EXCEPT !.asset_path = path],
                  pre |-> assets, hx |-> hx,
                  baselog |-> <<LogEntry("does_asset_exist", path, <<>>)>>,
                  log |-> <<LogEntry("does_asset_exist", path, <<>>)>>,
                  base |-> RetNone,
                  ret |-> [tag |-> check_asset_exists(path, assets, hx),
                           exc |-> "", path |-> <<>>]]
    /\ pc' = "done"
    /\ UNCHANGED <<variant, assets, dirs, actors, idx, fbx, content, registry>>

(* The names is_valid_attribute_name is asked about: resolved and          *)
(* unresolved names, a bare prefix, a name with a hyphen, the empty name.  *)
CandidateNames ==
    BaseNames \cup {PFX_MAP, PFX_LS, PFX_MM \o <<"-">>, <<>>}

(* BaseAsset.is_valid_attribute_name called on a helper of                 *)
(* src/framework_unreal/core (src/core has no such method).                *)
IsValidAttributeName ==
    /\ pc = "ready"
    /\ variant = "framework_unreal"
    /\ \E self \in BaseReceivers(variant) \cup LevelReceivers(variant), name \in CandidateNames :
         LET r == is_valid_attribute_name(self, name)
         IN  call' = [op |-> "is_valid_attribute_name", self |-> self,
                      args |-> [NoArgs EXCEPT !.asset_name = name],
                      pre |-> assets, hx |-> "answer", baselog |-> <<>>,
                      log |-> <<>>, base |-> RetNone,
                      ret |-> IF r.exc # "" THEN RetRaise(r.exc)
                              ELSE [tag |-> IF r.val THEN "True" ELSE "False",
                                    exc |-> "", path |-> <<>>]]
    /\ pc' = "done"
    /\ UNCHANGED <<variant, assets, dirs, actors, idx, fbx, content, registry>>

(* LevelAsset.create_asset up to its loop: the base creation; when that    *)
(* yields no level the call ends, otherwise the cinematics directory is    *)
(* made if the host has none and the loop starts.                          *)
LevelCreateAsset ==
    /\ pc = "ready"
    /\ \E self \in LevelReceivers(variant), hx \in {"answer", "raise"}, hc \in BOOLEAN :
         LET r == base_create_asset(variant, self, assets, hx, hc)
             cin == cinematics_path(self)
             log1 == Append(r.log, LogEntry("does_directory_exist", cin, <<>>))
         IN  IF r.ret.tag = "raise" \/ level_is_None(r.ret)
             THEN /\ call' = [op |-> "level_create_asset", self |-> self, args |-> NoArgs,
                              pre |-> assets, hx |-> hx, baselog |-> r.log,
                         log |-> r.log, base |-> r.ret, ret |-> r.ret]
                  /\ assets' = r.assets
                  /\ pc' = "done"
                  /\ UNCHANGED <<dirs, idx>>
             ELSE /\ call' = [op |-> "level_create_asset", self |-> self, args |-> NoArgs,
                              pre |-> assets, hx |-> hx, baselog |-> r.log,
                              log |-> IF cin \in dirs THEN log1
                                      ELSE Append(log1, LogEntry("make_directory", cin, <<>>)),
                              base |-> r.ret,
                              ret |-> [tag |-> "pending", exc |-> "", path |-> <<>>]]
                  /\ assets' = r.assets
                  /\ dirs' = dirs \cup {cin}
                  /\ pc' = "level_loop"
                  /\ idx' = 1
    /\ UNCHANGED <<variant, actors, fbx, content, registry>>

(* One iteration of the loop of LevelAsset.create_asset.                   *)
LevelLoop ==
    /\ pc = "level_loop"
    /\ idx <= Len(call.self.level_sequences)
    /\ \E hx \in {"answer", "raise"}, hc \in BOOLEAN :
         LET r == level_loop_body(variant, call.self, call.self.level_sequences[idx],
                                  assets, hx, hc)
         IN  /\ assets' = r.assets
             /\ actors' = actors \o r.spawned
             /\ IF r.exc # ""
                THEN /\ call' = [call EXCEPT !.log = @ \o r.log, !.ret = RetRaise(r.exc)]
                     /\ pc' = "done"
                     /\ UNCHANGED idx
                ELSE /\ call' = [call EXCEPT !.log = @ \o r.log]
                     /\ idx' = idx + 1
                     /\ UNCHANGED pc
    /\ UNCHANGED <<variant, dirs, fbx, content, registry>>

(* LevelAsset.create_asset returns the level once the loop is over.        *)
LevelReturn ==
    /\ pc = "level_loop"
    /\ idx > Len(call.self.level_sequences)
    /\ call' = [call EXCEPT !.ret = call.base]
    /\ pc' = "done"
    /\ UNCHANGED <<variant, assets, dirs, actors, idx, fbx, content, registry>>

Next ==
    \/ Construct
    \/ CreateAsset
    \/ CheckAssetExists
    \/ IsValidAttributeName
    \/ LevelCreateAsset
    \/ LevelLoop
    \/ LevelReturn

Spec == Init /\ [][Next]_vars

-----------------------------------------------------------------------------
(* FBXImporter.import_fbx, in a host that holds no asset yet.              *)

InitFbx ==
    /\ variant = "framework_unreal"
    /\ assets = {}
    /\ dirs = {}
    /\ actors = <<>>
    /\ pc = "ready"
    /\ call = NoCall
    /\ idx = 0
    /\ fbx = NoFbx
    /\ content = EmptyMap
    /\ registry = EmptyMap

(* import_fbx up to its call of rename_assets: the tasks are built and     *)
(* submitted, and the host imports what it can.                            *)
ImportFbx ==
    /\ pc = "ready"
    /\ \E inputs \in FbxInputs, import_animation \in BOOLEAN :
         /\ fbx' = [inputs |-> inputs, import_animation |-> import_animation,
                    imports |-> import_submissions(build_tasks(inputs, import_animation)),
                    renames |-> <<>>]
         /\ call' = [NoCall EXCEPT !.op = "import_fbx",
                        !.log = [i \in DOMAIN fbx'.imports |->
                                    LogEntry("import_asset_tasks", NONE, NONE)]]
         /\ content' \in HostContents(inputs)
         /\ registry' \in HostRegistries(inputs)
    /\ pc' = "fbx_imported"
    /\ UNCHANGED <<variant, assets, dirs, actors, idx>>

(* rename_assets, as import_fbx calls it with its own arguments.           *)
RenameAssets ==
    /\ pc = "fbx_imported"
    /\ fbx' = [fbx EXCEPT !.renames =
                  rename_submissions(assets_to_rename(fbx.inputs, fbx.import_animation,
                                                      content, registry))]
    /\ call' = [call EXCEPT !.log = @ \o [i \in DOMAIN fbx'.renames |->
                                            LogEntry("rename_assets", NONE, NONE)]]
    /\ pc' = "done"
    /\ UNCHANGED <<variant, assets, dirs, actors, idx, content, registry>>

NextFbx ==
    \/ ImportFbx
    \/ RenameAssets

SpecFbx == InitFbx /\ [][NextFbx]_vars

-----------------------------------------------------------------------------
(* The record `call`:                                                      *)
(*   op       "construct" | "create_asset" | "level_create_asset" |        *)
(*            "check_asset_exists" | "is_valid_attribute_name"             *)
(*   self     the object constructed (as far as it got) or called          *)
(*   args     the constructor's arguments                                  *)
(*   pre      the host's assets when the operation started                 *)
(*   hx       whether the host answered the existence query or raised      *)
(*   baselog  the host calls of BaseAsset.create_asset, in order           *)
(*   log      all host calls of the operation so far, in order             *)
(*   base     what BaseAsset.create_asset returned                         *)
(*   ret      what the operation returned or raised ("pending": running)   *)

IsCreate == call.op \in {"create_asset", "level_create_asset"}

FullPath == JoinPath(call.self.asset_path, call.self.asset_name)

Positions(log, op) == {i \in DOMAIN log : log[i].op = op}

Count(log, op) == Cardinality(Positions(log, op))

-----------------------------------------------------------------------------
(* Claims *)

(* C1: when the asset already exists at asset_path/asset_name before       *)
(* BaseAsset.create_asset is called (and the host answers the existence    *)
(* query), the call is a no-op: no host creation call, no save call, the   *)
(* host's assets unchanged, and None returned.                             *)
C1_ExistingAssetIsNoOp ==
    (IsCreate /\ call.hx = "answer" /\ FullPath \in call.pre)
        => /\ Count(call.log, "create_asset") = 0
           /\ Count(call.log, "save_asset") = 0
           /\ assets = call.pre
           /\ call.base = RetNone

(* C2: when the asset does not exist, one call of BaseAsset.create_asset   *)
(* issues exactly one host creation call and, when that call returns a     *)
(* handle, exactly one save call on that handle, after the creation call   *)
(* (stated for src/framework_unreal/core, whose create_asset saves).       *)
C2_OneCreateThenOneSave ==
    (IsCreate /\ variant = "framework_unreal" /\ call.hx = "answer"
        /\ FullPath \notin call.pre)
        => /\ Count(call.baselog, "create_asset") = 1
           /\ call.base.tag = "handle" =>
                /\ Count(call.baselog, "save_asset") = 1
                /\ \A i \in Positions(call.baselog, "save_asset") :
                     /\ call.baselog[i].path = call.base.path
                     /\ \A j \in Positions(call.baselog, "create_asset") : j < i

(* C3: the existence check of BaseAsset.create_asset queries the path      *)
(* asset_path/asset_name, and the creation is skipped if and only if the   *)
(* host reports an asset at that path.                                     *)
C3_ChecksFullyQualifiedPath ==
    (IsCreate /\ call.hx = "answer")
        => /\ call.baselog[1].op = "does_asset_exist"
           /\ call.baselog[1].path = FullPath
           /\ (Count(call.baselog, "create_asset") = 0) <=> (FullPath \in call.pre)

(* The literal prefix of the name template of the kind a helper of         *)
(* src/framework_unreal/core is constructed for.                           *)
KindTemplate(cls, is_material_instance) ==
    attribute_name_template(
        Object(cls, <<>>, "", <<>>, is_material_instance, <<>>)).val

IsConstruct(cls) ==
    /\ call.op = "construct"
    /\ variant = "framework_unreal"
    /\ call.self.cls = cls

ConcreteClasses == {"LevelAsset", "LevelSequenceAsset", "MaterialAsset"}

(* C4: for every kind and every base name b that does not carry the kind's *)
(* prefix, constructing the helper terminates normally and the resolved    *)
(* asset_name is the kind's template with its placeholder replaced by b.   *)
C4_ResolvedNameIsTemplateOfBase ==
    \A cls \in ConcreteClasses :
        LET t == KindTemplate(cls, call.args.is_material_instance)
        IN  (IsConstruct(cls) /\ ~StartsWith(call.args.asset_name, t.literal))
                => /\ call.ret.tag = "object"
                   /\ call.self.asset_name = t.literal \o call.args.asset_name

(* C5: name resolution is idempotent: resolving returns a name, resolving  *)
(* that name again returns it unchanged, and a base name that already      *)
(* starts with the kind's prefix is returned as it is.                     *)
C5_ResolutionIsIdempotent ==
    \A cls \in ConcreteClasses :
        LET t == KindTemplate(cls, call.args.is_material_instance)
        IN  IsConstruct(cls)
                => /\ call.ret.tag = "object"
                   /\ get_asset_name(call.self, call.self.asset_name)
                        = Ok(call.self.asset_name)
                   /\ StartsWith(call.args.asset_name, t.literal)
                        => call.self.asset_name = call.args.asset_name

(* C6: when LevelAsset.create_asset has created a level that did not exist *)
(* before, with N declared level sequences, then on return the cinematics  *)
(* directory exists and exactly N actors have been spawned, each added to  *)
(* the level's world and assigned to the folder "1-Cinematics".            *)
C6_LevelGetsFolderAndAllActors ==
    (call.op = "level_create_asset" /\ pc = "done" /\ FullPath \notin call.pre
        /\ call.base.tag = "handle")
        => /\ call.ret.tag = "handle"
           /\ cinematics_path(call.self) \in dirs
           /\ Len(actors) = Len(call.self.level_sequences)
           /\ \A i \in DOMAIN actors :
                actors[i].in_world /\ actors[i].folder = CINEMATICS

(* C9: when the asset does not exist and the host creation succeeds,       *)
(* create_asset returns a handle to the created asset and the host then    *)
(* has an asset at asset_path/asset_name; for a LevelAsset after all its   *)
(* level sequences have been processed.                                    *)
C9_CreatedAssetIsReturnedAndExists ==
    (IsCreate /\ pc = "done" /\ FullPath \notin call.pre /\ call.base.tag = "handle")
        => /\ call.ret = RetHandle(FullPath)
           /\ FullPath \in assets

(* C10: a LevelAsset built from base name b is named "MAP_" + b; a         *)
(* MaterialAsset built with is_material_instance = False is named          *)
(* "MM_" + b, and one built with is_material_instance = True is not given  *)
(* the Material prefix.                                                    *)
C10_LevelAndMaterialPrefixes ==
    /\ IsConstruct("LevelAsset")
         => /\ call.ret.tag = "object"
            /\ call.self.asset_name = PFX_MAP \o call.args.asset_name
    /\ (IsConstruct("MaterialAsset") /\ ~call.args.is_material_instance)
         => /\ call.ret.tag = "object"
            /\ call.self.asset_name = PFX_MM \o call.args.asset_name
    /\ (IsConstruct("MaterialAsset") /\ call.args.is_material_instance)
         => /\ call.ret.tag = "object"
            /\ call.self.asset_name # PFX_MM \o call.args.asset_name
    /\ (IsCreate /\ variant = "framework_unreal" /\ call.self.cls = "LevelAsset")
         => attribute_name_template(call.self).val.literal = PFX_MAP
    /\ (IsCreate /\ call.self.cls = "MaterialAsset")
         => (attribute_name_template(call.self).val.literal = PFX_MM)
                <=> ~call.self.is_material_instance

\* The static-mesh prefix the specification names.
PFX_SM == <<"S", "M", "_">>

Batch == fbx.renames[1]

Queued(entry) == \E i \in DOMAIN Batch : Batch[i] = entry

(* C7: for every input list of M entries (M >= 0), import_fbx issues       *)
(* exactly one host import submission, holding the M tasks of the inputs   *)
(* in order, and exactly one batch-rename submission, the import           *)
(* submission before the rename submission.                                *)
C7_OneImportThenOneRename ==
    /\ (call.op = "import_fbx" /\ pc = "fbx_imported")
         => /\ Len(fbx.imports) = 1
            /\ Len(fbx.renames) = 0
            /\ Len(fbx.imports[1]) = Len(fbx.inputs)
            /\ \A i \in DOMAIN fbx.inputs :
                 /\ fbx.imports[1][i].task.filename = fbx.inputs[i].file_path
                 /\ fbx.imports[1][i].task.destination_path = fbx.inputs[i].destination_path
                 /\ fbx.imports[1][i].task.destination_name = fbx.inputs[i].asset_name
    /\ (call.op = "import_fbx" /\ pc = "done")
         => /\ Len(fbx.imports) = 1
            /\ Len(fbx.imports[1]) = Len(fbx.inputs)
            /\ Len(fbx.renames) = 1
            /\ call.log = <<LogEntry("import_asset_tasks", NONE, NONE),
                            LogEntry("rename_assets", NONE, NONE)>>

(* C7 witness: an import of two inputs has made both submissions, and the  *)
(* rename batch holds several entries.                                     *)
C7_Witness ==
    /\ call.op = "import_fbx"
    /\ pc = "done"
    /\ Len(fbx.inputs) = 2
    /\ Len(fbx.imports) = 1
    /\ Len(fbx.renames) = 1
    /\ Len(fbx.renames[1]) >= 2

(* C8: in the rename batch a skeletal mesh contributes a rename entry to   *)
(* "SKM_" + asset_name, a static mesh a rename entry to "SM_" + asset_name,*)
(* a skeletal mesh's physics asset and skeleton, when present, rename      *)
(* entries to "PA_" + asset_name and "SKL_" + asset_name; and every        *)
(* element of the batch is a rename entry.                                 *)
C8_MeshesAndCompanionsAreRenamed ==
    (call.op = "import_fbx" /\ pc = "done")
        => /\ \A i \in DOMAIN Batch : Batch[i].kind = "AssetRenameData"
           /\ \A i \in DOMAIN fbx.inputs :
                LET dest == fbx.inputs[i].destination_path
                    name == fbx.inputs[i].asset_name
                    asset == load_asset(JoinPath(dest, name), content)
                IN  /\ asset.cls = "SkeletalMesh"
                         => Queued(AssetRenameData(asset.id, dest, PFX_SKM \o name))
                    /\ asset.cls = "StaticMesh"
                         => Queued(AssetRenameData(asset.id, dest, PFX_SM \o name))
                    /\ (asset.cls = "SkeletalMesh" /\ asset.physics_asset # NONE)
                         => Queued(AssetRenameData(asset.physics_asset, dest,
                                                   PFX_PA \o name))
                    /\ (asset.cls = "SkeletalMesh" /\ asset.skeleton # NONE)
                         => Queued(AssetRenameData(asset.skeleton, dest,
                                                   PFX_SKL \o name))

(* C11: BaseAsset.check_asset_exists never propagates a host failure: when *)
(* the host's existence query raises it returns None instead of raising,   *)
(* otherwise it returns exactly the boolean the host reported for the path *)
(* asked; and the call changes nothing in the host.                        *)
C11_CheckNeverRaises ==
    /\ [](call.op = "check_asset_exists"
            => /\ call.ret.tag # "raise"
               /\ call.hx = "raise" => call.ret.tag = "None"
               /\ call.hx = "answer" =>
                    call.ret.tag = (IF call.args.asset_path \in call.pre
                                    THEN "True" ELSE "False")
               /\ assets = call.pre)
    /\ [][call'.op = "check_asset_exists" => UNCHANGED <<assets, dirs, actors>>]_vars

(* C11 witness: the host raised on the existence query of a path that      *)
(* holds an asset, and the check has returned.                             *)
C11_Witness ==
    /\ call.op = "check_asset_exists"
    /\ pc = "done"
    /\ call.hx = "raise"
    /\ call.args.asset_path \in call.pre
    /\ call.ret.tag = "None"

(* C12: name validation agrees with name resolution: for every kind and    *)
(* every input name the check returns a boolean; it returns True for the   *)
(* kind's prefix followed by a non-empty base name of word characters, and *)
(* False for every name that does not start with the kind's prefix.        *)
C12_ValidationAgreesWithResolution ==
    call.op = "is_valid_attribute_name"
        => LET prefix == attribute_name_template(call.self).val.literal
               name == call.args.asset_name
           IN  /\ call.ret.tag \in {"True", "False"}
               /\ (/\ StartsWith(name, prefix)
                   /\ Len(name) > Len(prefix)
                   /\ \A i \in DOMAIN name : name[i] \in WordChars)
                     => call.ret.tag = "True"
               /\ ~StartsWith(name, prefix) => call.ret.tag = "False"

\* The host calls by which LevelAsset.create_asset enriches a level.
EnrichmentOps ==
    {"does_directory_exist", "make_directory", "find_asset_data", "create_asset",
     "save_asset", "spawn_actor_from_object", "add_actor_to_level", "set_folder_path"}

\* The base creation found an asset at the path it asked the host about.
BaseFoundExisting ==
    /\ call.op = "level_create_asset"
    /\ call.hx = "answer"
    /\ call.baselog[1].path \in call.pre

(* C13: when the base creation of LevelAsset.create_asset finds the Level  *)
(* asset existing and returns None, there is no enrichment: the call is    *)
(* over, it has returned None, it has made no directory, looked up or      *)
(* created no sequence and spawned no actor, and the host is unchanged.    *)
C13_ExistingLevelIsNotEnriched ==
    /\ [](BaseFoundExisting
            => /\ pc = "done"
               /\ call.base = RetNone
               /\ call.ret = RetNone
               /\ \A i \in DOMAIN call.log : call.log[i].op \notin EnrichmentOps
               /\ actors = <<>>
               /\ assets = call.pre)
    /\ [][BaseFoundExisting' => UNCHANGED <<assets, dirs, actors>>]_vars

(* C13 witness: create_asset of a level with two declared sequences has    *)
(* returned None after the host reported the asset as existing.            *)
C13_Witness ==
    /\ BaseFoundExisting
    /\ pc = "done"
    /\ Len(call.self.level_sequences) = 2
    /\ call.ret = RetNone
    /\ call.log = <<LogEntry("does_asset_exist", call.baselog[1].path, <<>>)>>

\* The host calls a step of the operation has added to the log.
NewCalls == SubSeq(call'.log, Len(call.log) + 1, Len(call'.log))

(* C14: during the enrichment the declared entries are processed one at a  *)
(* time in input order: the step for entry idx looks up                    *)
(* asset_path/1-Cinematics/<sequence_name> first, requests no creation     *)
(* when the sequence is found and exactly one when it is absent, spawns    *)
(* the entry's actor, and only then moves on to entry idx + 1.             *)
C14_SequencesInOrderCreateIffAbsent ==
    [][(pc = "level_loop" /\ idx <= Len(call.self.level_sequences))
        => LET entry == call.self.level_sequences[idx]
               lookup == JoinPath(cinematics_path(call.self), entry.name)
           IN  /\ NewCalls[1] = LogEntry("find_asset_data", lookup, <<>>)
               /\ Count(NewCalls, "find_asset_data") = 1
               /\ Count(NewCalls, "create_asset") = (IF lookup \in assets THEN 0 ELSE 1)
               /\ Count(NewCalls, "spawn_actor_from_object") = 1
               /\ Len(actors') = Len(actors) + 1
               /\ idx' = idx + 1]_vars

\* The assets the registry lists in a destination folder.
ListedIn(folder) == {registry[folder][i] : i \in DOMAIN registry[folder]}

RenameDone == call.op = "import_fbx" /\ pc = "done"

(* C15: the import_animation flag controls the animation renames: when it  *)
(* is False no animation listed in a destination folder is in the batch;   *)
(* when it is True every animation listed in an input's destination folder *)
(* whose name does not start with "AS_" is in the batch with a new name    *)
(* that starts with "AS_", in that folder; and an animation whose name     *)
(* starts with "AS_" is never in the batch.                                *)
C15_FlagControlsAnimationRenames ==
    RenameDone
        => \A i \in DOMAIN fbx.inputs :
             LET dest == fbx.inputs[i].destination_path
             IN  \A x \in ListedIn(dest) :
                   /\ (~fbx.import_animation /\ IsAnimation(x))
                        => \A j \in DOMAIN Batch : Batch[j].asset # x.id
                   /\ (fbx.import_animation /\ IsAnimation(x)
                            /\ ~StartsWith(x.asset_name, PFX_AS))
                        => \E j \in DOMAIN Batch :
                             /\ Batch[j].kind = "AssetRenameData"
                             /\ Batch[j].asset = x.id
                             /\ Batch[j].new_package_path = dest
                             /\ StartsWith(Batch[j].new_name, PFX_AS)
                   /\ (IsAnimation(x) /\ StartsWith(x.asset_name, PFX_AS))
                        => \A j \in DOMAIN Batch : Batch[j].asset # x.id

(* C15 witness: with import_animation True, a folder that lists a texture, *)
(* an animation "AS_v" and an animation "v" has had "v" queued for rename. *)
C15_Witness ==
    /\ RenameDone
    /\ fbx.import_animation
    /\ \E i \in DOMAIN fbx.inputs :
         LET dest == fbx.inputs[i].destination_path
         IN  /\ Len(registry[dest]) = 3
             /\ \E j \in DOMAIN Batch :
                  /\ Batch[j].asset = JoinPath(dest, <<"v">>)
                  /\ Batch[j].new_name = PFX_AS \o fbx.inputs[i].asset_name \o <<"v">>

(* C16: every specialised helper keeps its constructor arguments in their  *)
(* roles: in the object LevelAsset, MaterialAsset or LevelSequenceAsset    *)
(* builds from (asset_path p, asset_name b), the attribute asset_path is   *)
(* p, the attribute asset_name is the kind's prefix followed by b, and the *)
(* kind of a MaterialAsset is MaterialInstance exactly when                *)
(* is_material_instance is True (each attribute as far as the constructor  *)
(* has assigned it).                                                       *)
C16_ArgumentsKeepTheirRoles ==
    \A cls \in ConcreteClasses :
        IsConstruct(cls)
            => /\ "asset_path" \in call.self.attrs
                    => call.self.asset_path = call.args.asset_path
               /\ "asset_name" \in call.self.attrs
                    => call.self.asset_name
                         = KindTemplate(cls, call.args.is_material_instance).literal
                             \o call.args.asset_name
               /\ (cls = "MaterialAsset" /\ "asset_type" \in call.self.attrs)
                    => (call.self.asset_type = "MaterialInstance")
                         <=> call.args.is_material_instance

(* C17: when the host's existence query fails (check_asset_exists returns  *)
(* None), BaseAsset.create_asset of src/framework_unreal/core goes on as   *)
(* if the asset did not exist: it raises nothing, issues exactly one host  *)
(* creation call, and saves the created asset exactly once, after the      *)
(* creation, when the host returned a handle (no save otherwise).          *)
C17_UnknownExistenceMeansCreate ==
    (IsCreate /\ variant = "framework_unreal" /\ call.hx = "raise")
        => /\ call.base.tag # "raise"
           /\ call.baselog[1] = LogEntry("does_asset_exist", call.self.asset_path, <<>>)
           /\ Count(call.baselog, "create_asset") = 1
           /\ Count(call.baselog, "save_asset")
                = (IF call.base.tag = "handle" THEN 1 ELSE 0)
           /\ \A i \in Positions(call.baselog, "save_asset") :
                /\ call.baselog[i].path = call.base.path
                /\ \A j \in Positions(call.baselog, "create_asset") : j < i

(* C17 witness: the host failed on the existence query while it held an    *)
(* asset both at the path asked and at asset_path/asset_name, and          *)
(* create_asset has made its creation call and saved the result.           *)
C17_Witness ==
    /\ call.op = "create_asset"
    /\ pc = "done"
    /\ call.hx = "raise"
    /\ call.self.asset_path \in call.pre
    /\ FullPath \in call.pre
    /\ Count(call.baselog, "create_asset") = 1
    /\ Count(call.baselog, "save_asset") = 1
    /\ call.ret = RetHandle(FullPath)

(* C18: in the one rename batch rename_assets submits, every target object *)
(* appears at most once, and no two rename entries have the same           *)
(* destination path and new name (stated for input lists whose entries    *)
(* are pairwise different, the case that asks least of rename_assets).     *)
C18_BatchHasNoDuplicateTargets ==
    (RenameDone /\ Distinct(fbx.inputs))
        => \A i, j \in DOMAIN Batch :
             i # j
                => /\ Batch[i].asset # Batch[j].asset
                   /\ (Batch[i].kind = "AssetRenameData"
                            /\ Batch[j].kind = "AssetRenameData")
                        => <<Batch[i].new_package_path, Batch[i].new_name>>
                             # <<Batch[j].new_package_path, Batch[j].new_name>>

====
